---- MODULE Spec2Model ----
(***************************************************************************)
(* Model of merge-app.py: the row validator, the numeric formatter, the    *)
(* per-file processing loop, the two write strategies and the request      *)
(* handler main.                                                           *)
(*                                                                         *)
(* A cell value is a sequence of one-character strings (the str objects    *)
(* pandas produces under dtype=str) or NaN (the float pandas produces for  *)
(* an empty cell).                                                         *)
(***************************************************************************)
EXTENDS Integers, Sequences, FiniteSets, TLC

(* ------------------------------------------------------------------ *)
(* Bounds of the model                                                 *)
(* ------------------------------------------------------------------ *)

\* Longest input string given to format_numeric_value in SpecFmt.
MaxLen == 4

\* Most uploaded files in one request.
MaxFiles == 2

\* Most data rows in one uploaded sheet.
MaxRows == 2

(* ------------------------------------------------------------------ *)
(* Program constants                                                   *)
(* ------------------------------------------------------------------ *)

MAX_MISSING_VALUES == 10

\* create_final_file and preserve_template_formatting: first data row.
data_start_row == 15

required_columns ==
    << "PERIODE", "KANTOR WILAYAH", "KANTOR CABANG", "UNIT KERJA", "LOAN TYPE",
       "CIFNO", "NO REKENING", "NAMA DEBITUR", "STATUS REKENING", "STATUS DATE",
       "NILAI TERCATAT", "CKPN SEBELUM", "CKPN BERJALAN", "BIAYA CKPN",
       "FLAG RESTRUK", "STAGE", "KOLEKTIBILITAS", "UMUR TUNGGAKAN", "SEGMENTASI" >>

numeric_columns ==
    { "NILAI TERCATAT", "CKPN SEBELUM", "CKPN BERJALAN", "BIAYA CKPN" }

(* ------------------------------------------------------------------ *)
(* Strings                                                             *)
(* ------------------------------------------------------------------ *)

\* The float NaN pandas stores for an empty cell; it is not a str.
NaN == << "<NaN>" >>

Digits == { "0", "1", "2", "3", "4", "5", "6", "7", "8", "9" }

DigitVal(c) ==
    CASE c = "0" -> 0 [] c = "1" -> 1 [] c = "2" -> 2 [] c = "3" -> 3
      [] c = "4" -> 4 [] c = "5" -> 5 [] c = "6" -> 6 [] c = "7" -> 7
      [] c = "8" -> 8 [] c = "9" -> 9

DigitChar(d) ==
    CASE d = 0 -> "0" [] d = 1 -> "1" [] d = 2 -> "2" [] d = 3 -> "3"
      [] d = 4 -> "4" [] d = 5 -> "5" [] d = 6 -> "6" [] d = 7 -> "7"
      [] d = 8 -> "8" [] d = 9 -> "9"

\* str.lower on the characters of the model's alphabet.
LowerChar(c) ==
    CASE c = "N" -> "n" [] c = "A" -> "a" [] c = "I" -> "i" [] c = "F" -> "f"
      [] OTHER -> c

Lower(s) == [i \in 1..Len(s) |-> LowerChar(s[i])]

RECURSIVE LStrip(_)
LStrip(s) == IF s # <<>> /\ Head(s) = " " THEN LStrip(Tail(s)) ELSE s

RECURSIVE RStrip(_)
RStrip(s) ==
    IF s # <<>> /\ s[Len(s)] = " " THEN RStrip(SubSeq(s, 1, Len(s) - 1)) ELSE s

\* str.strip()
Strip(s) == RStrip(LStrip(s))

\* value.replace(',', '')
RemoveCommas(s) == SelectSeq(s, LAMBDA c : c # ",")

(* ------------------------------------------------------------------ *)
(* float(), int() and the format specifications                        *)
(* ------------------------------------------------------------------ *)

RECURSIVE DigitsToNat(_)
DigitsToNat(s) ==
    IF s = <<>> THEN 0
    ELSE 10 * DigitsToNat(SubSeq(s, 1, Len(s) - 1)) + DigitVal(s[Len(s)])

RECURSIVE NatToDigits(_)
NatToDigits(n) ==
    IF n < 10 THEN << DigitChar(n) >>
    ELSE Append(NatToDigits(n \div 10), DigitChar(n % 10))

\* The "," option of a format specification: groups of three from the right.
RECURSIVE GroupThousands(_)
GroupThousands(ds) ==
    IF Len(ds) <= 3 THEN ds
    ELSE GroupThousands(SubSeq(ds, 1, Len(ds) - 3))
            \o << "," >> \o SubSeq(ds, Len(ds) - 2, Len(ds))

AllDigits(s) == \A i \in 1..Len(s) : s[i] \in Digits

DotPositions(s) == { i \in 1..Len(s) : s[i] = "." }

\* float(s) for a str: surrounding whitespace is ignored, then an optional
\* sign, then "inf", "infinity" or "nan" in any case, or a decimal literal
\* with at least one digit.  Exponents and "_" separators are outside the
\* alphabet of the model.  The result is
\*   [kind |-> "invalid"]                       ValueError
\*   [kind |-> "nan"] / [kind |-> "inf"]        the special floats
\*   [kind |-> "finite", neg, int, frac]        int part and fraction digits
ParseFloat(s) ==
    LET t    == Strip(s)
        sgn  == t # <<>> /\ Head(t) \in { "-", "+" }
        neg  == t # <<>> /\ Head(t) = "-"
        body == IF sgn THEN Tail(t) ELSE t
        low  == Lower(body)
        dots == DotPositions(body)
    IN  IF low = << "n", "a", "n" >> THEN [kind |-> "nan"]
        ELSE IF low = << "i", "n", "f" >>
                \/ low = << "i", "n", "f", "i", "n", "i", "t", "y" >>
             THEN [kind |-> "inf"]
        ELSE IF dots = {} THEN
             IF body # <<>> /\ AllDigits(body)
             THEN [kind |-> "finite", neg |-> neg,
                   int |-> DigitsToNat(body), frac |-> <<>>]
             ELSE [kind |-> "invalid"]
        ELSE IF Cardinality(dots) = 1 THEN
             LET d  == CHOOSE i \in dots : TRUE
                 ip == SubSeq(body, 1, d - 1)
                 fp == SubSeq(body, d + 1, Len(body))
             IN  IF AllDigits(ip) /\ AllDigits(fp) /\ Len(ip) + Len(fp) > 0
                 THEN [kind |-> "finite", neg |-> neg,
                       int |-> DigitsToNat(ip), frac |-> fp]
                 ELSE [kind |-> "invalid"]
        ELSE [kind |-> "invalid"]

\* numeric_value == int(numeric_value)
IsWhole(p) == \A i \in 1..Len(p.frac) : p.frac[i] = "0"

\* f"{int(numeric_value):,}"; int(-0.0) is 0 and carries no sign.
FormatInt(p) ==
    (IF p.neg /\ p.int # 0 THEN << "-" >> ELSE <<>>)
        \o GroupThousands(NatToDigits(p.int))

FracDigit(p, i) == IF i <= Len(p.frac) THEN DigitVal(p.frac[i]) ELSE 0

\* f"{numeric_value:,.2f}": rounded to two decimals; the sign of a negative
\* float is kept even when it rounds to zero.  An exact tie (a third decimal
\* 5 followed by zeros only) is rounded on the binary value of the float and
\* is kept out of the alphabet of the model.
FormatTwoDecimals(p) ==
    LET up    == IF FracDigit(p, 3) >= 5 THEN 1 ELSE 0
        cents == p.int * 100 + FracDigit(p, 1) * 10 + FracDigit(p, 2) + up
    IN  (IF p.neg THEN << "-" >> ELSE <<>>)
            \o GroupThousands(NatToDigits(cents \div 100))
            \o << ".", DigitChar((cents % 100) \div 10), DigitChar(cents % 10) >>

Returned(v) == [raised |-> FALSE, value |-> v]

Raised(e) == [raised |-> TRUE, value |-> << e >>]

\* format_numeric_value: what the call returns, or the exception it raises.
\* int(nan) raises ValueError, which the function catches; int(inf) raises
\* OverflowError, which it does not.
format_numeric_value(value) ==
    IF value = NaN \/ value = <<>> \/ value = << "n", "a", "n" >>
    THEN Returned(value)
    ELSE LET p == ParseFloat(RemoveCommas(value))
         IN  CASE p.kind = "invalid" -> Returned(value)
               [] p.kind = "nan"     -> Returned(value)
               [] p.kind = "inf"     -> Raised("OverflowError")
               [] p.kind = "finite"  ->
                    IF IsWhole(p) THEN Returned(FormatInt(p))
                                  ELSE Returned(FormatTwoDecimals(p))

(* ------------------------------------------------------------------ *)
(* Validator                                                           *)
(* ------------------------------------------------------------------ *)

is_missing_value(value) ==
    IF value = NaN THEN TRUE
    ELSE LET stripped == Strip(value)
         IN  stripped = <<>> \/ Lower(stripped) = << "n", "a", "n" >>

count_missing_values(row) ==
    Cardinality({ i \in 1..Len(row) : is_missing_value(row[i]) })

(* ------------------------------------------------------------------ *)
(* State of one request                                                *)
(* ------------------------------------------------------------------ *)

VARIABLES
    pc,               \* position of main in the request
    template_file,    \* TRUE when a template was uploaded
    metadata_ok,      \* all([periode_date, kanwil, kanca, unit_kerja])
    uploaded_files,   \* the uploaded files, in upload order
    template_fill,    \* what the template holds in the cells of its data area
    faults_enabled,   \* the library and file-system failures this host can show
    temp_dir,         \* "none", "exists" or "removed"
    template_header,  \* rows 1..14 of template.xlsx: "blank" or "metadata"
    output,           \* hasil_gabungan.xlsx on disk
    meta_call,        \* what update_template_metadata ran and returned
    write_call,       \* what create_final_file ran and returned
    next_file,        \* index of the file the loop of process_files is at
    data_list,        \* process_files: the frames kept so far
    processing_log,   \* process_files: the log lines so far
    file_masks,       \* process_files: valid_rows_mask of each file, by index
    concatenated,     \* create_final_file: pd.concat(data_list)
    gabungan_df,      \* create_final_file: the dataset it writes
    shown,            \* what the page has shown: banners, log lines, download
    download,         \* the bytes handed to the download button
    xl_apps,          \* xlwings application instances running
    xl_books,         \* workbooks open in them
    escaped,          \* the functions an uncaught exception has left
    final_preserve,   \* main: outcome of its preserve_template_formatting call
    fmt_in,           \* SpecFmt: the argument of format_numeric_value
    fmt_out,          \* SpecFmt: the outcomes of the calls made so far
    fmt_miss          \* SpecFmt: is_missing_value of the argument, once taken

vars ==
    << pc, template_file, metadata_ok, uploaded_files, template_fill,
       faults_enabled, temp_dir, template_header, output, meta_call,
       write_call, next_file, data_list, processing_log, file_masks,
       concatenated, gabungan_df, shown, download, xl_apps, xl_books,
       escaped, final_preserve, fmt_in, fmt_out, fmt_miss >>

inputs ==
    << template_file, metadata_ok, uploaded_files, template_fill,
       faults_enabled >>

fmt_vars == << fmt_in, fmt_out, fmt_miss >>

NumCols == Len(required_columns)

IsNumericColumn(c) == required_columns[c] \in numeric_columns

AllFaults ==
    { "save_template", "xw_meta_app", "xw_meta_open", "xw_meta_write",
      "opx_meta", "concat", "copy_template", "xw_write_app", "xw_write_open",
      "xw_write_cells", "opx_write", "preserve" }

\* A step that can fail on this host either fails or does not.
MayFail(f) == IF f \in faults_enabled THEN { TRUE, FALSE } ELSE { FALSE }

NotRun == [xlwings |-> "not_run", openpyxl |-> "not_run",
           preserve |-> "not_run", returned |-> "none"]

NoOutput == [exists |-> FALSE, header |-> "blank", data |-> <<>>]

(* ------------------------------------------------------------------ *)
(* process_files                                                       *)
(* ------------------------------------------------------------------ *)

\* RowIsValid with the comparison made strict: a row at the threshold is lost.
RowIsValid_exclusive(row) == count_missing_values(row) < MAX_MISSING_VALUES

\* valid_rows_mask = missing_counts <= MAX_MISSING_VALUES
RowIsValid(row) == count_missing_values(row) <= MAX_MISSING_VALUES

valid_rows_mask(rows) == [i \in 1..Len(rows) |-> RowIsValid(rows[i])]

\* df[valid_rows_mask]
FilterRows(rows) == SelectSeq(rows, RowIsValid)

\* for col in numeric_columns: df.loc[:, col] = df[col].apply(format_numeric_value)
\* The frame with the four numeric columns formatted, or the exception the
\* first failing call raises.
FormatFrame(rows) ==
    LET bad == \E i \in 1..Len(rows) : \E c \in 1..NumCols :
                  IsNumericColumn(c) /\ format_numeric_value(rows[i][c]).raised
    IN  IF bad THEN [raised |-> TRUE, rows |-> <<>>]
        ELSE [raised |-> FALSE,
              rows |-> [i \in 1..Len(rows) |->
                          [c \in 1..NumCols |->
                              IF IsNumericColumn(c)
                              THEN format_numeric_value(rows[i][c]).value
                              ELSE rows[i][c]]]]

LogMissingCols(name) == [kind |-> "missing_cols", file |-> name]

LogCounts(name, initial, kept) ==
    [kind |-> "counts", file |-> name, initial |-> initial, kept |-> kept]

LogReadError(name) == [kind |-> "read_error", file |-> name]

Banner(msg) == [kind |-> "error", text |-> msg]

\* LeaveWith for a directory made with mkdtemp: nothing removes it.
LeaveWith_keeps == UNCHANGED temp_dir

\* The exit of the with block: TemporaryDirectory.__exit__ removes the
\* directory however the block is left.
LeaveWith == temp_dir' = "removed"

\* An exception nothing catches leaves every function on the stack.
Crash(functions) ==
    /\ escaped' = functions
    /\ pc' = "done"
    /\ LeaveWith

\* One iteration of the loop of process_files.
ProcessFile ==
    /\ pc = "process"
    /\ next_file <= Len(uploaded_files)
    /\ LET f == uploaded_files[next_file] IN
       IF f.fault = "save" THEN
           \* open(file_path, 'wb') is outside the try block
           /\ Crash({ "process_files", "main" })
           /\ UNCHANGED << next_file, data_list, processing_log, file_masks >>
       ELSE
           /\ next_file' = next_file + 1
           /\ pc' = pc
           /\ UNCHANGED << escaped, temp_dir >>
           /\ IF f.fault = "read" THEN
                  /\ processing_log' = Append(processing_log, LogReadError(f.name))
                  /\ UNCHANGED << data_list, file_masks >>
              ELSE IF f.fault = "columns" THEN
                  /\ processing_log' = Append(processing_log, LogMissingCols(f.name))
                  /\ UNCHANGED << data_list, file_masks >>
              ELSE
                  LET df_filtered == FilterRows(f.rows)
                      formatted   == FormatFrame(df_filtered)
                      counts      == LogCounts(f.name, Len(f.rows), Len(df_filtered))
                  IN  IF formatted.raised THEN
                          /\ processing_log' =
                                processing_log \o << counts, LogReadError(f.name) >>
                          /\ UNCHANGED << data_list, file_masks >>
                      ELSE
                          /\ processing_log' = Append(processing_log, counts)
                          /\ file_masks' =
                                [file_masks EXCEPT ![next_file] =
                                    [accepted |-> TRUE,
                                     mask |-> valid_rows_mask(f.rows)]]
                          /\ data_list' =
                                IF formatted.rows # <<>>
                                THEN Append(data_list, formatted.rows)
                                ELSE data_list
    /\ UNCHANGED << inputs, template_header, output, meta_call, write_call,
                    concatenated, gabungan_df, shown, download, xl_apps,
                    xl_books, final_preserve, fmt_vars >>

\* return data_list, processing_log
ProcessFilesReturn ==
    /\ pc = "process"
    /\ next_file > Len(uploaded_files)
    /\ pc' = "create"
    /\ UNCHANGED << inputs, temp_dir, template_header, output, meta_call,
                    write_call, next_file, data_list, processing_log,
                    file_masks, concatenated, gabungan_df, shown, download,
                    xl_apps, xl_books, escaped, final_preserve,
                    fmt_vars >>

(* ------------------------------------------------------------------ *)
(* The two spreadsheet libraries                                       *)
(* ------------------------------------------------------------------ *)

\* How far an xlwings strategy gets: "ok", or the call that raises:
\* xw.App(), app.books.open(), or a range assignment / wb.save().
XlwingsOutcomes(f_app, f_open, f_write) ==
    { "ok" }
        \cup (IF f_app \in faults_enabled THEN { "app" } ELSE {})
        \cup (IF f_open \in faults_enabled THEN { "open" } ELSE {})
        \cup (IF f_write \in faults_enabled THEN { "write" } ELSE {})

\* The except branch holds no app.quit() and no wb.close(): what xw.App()
\* and app.books.open() created before the raise stays.
AppsLeft(stage) == IF stage \in { "open", "write" } THEN 1 ELSE 0

BooksLeft(stage) == IF stage = "write" THEN 1 ELSE 0

\* update_template_metadata, the whole call.
UpdateTemplateMetadata ==
    /\ pc = "metadata"
    /\ \E stage \in XlwingsOutcomes("xw_meta_app", "xw_meta_open", "xw_meta_write") :
         IF stage = "ok" THEN
             /\ template_header' = "metadata"
             /\ meta_call' = [NotRun EXCEPT !.xlwings = "ok", !.returned = "ok"]
             /\ UNCHANGED << xl_apps, xl_books >>
         ELSE
             /\ xl_apps' = xl_apps + AppsLeft(stage)
             /\ xl_books' = xl_books + BooksLeft(stage)
             /\ \E fails \in MayFail("opx_meta") :
                  IF fails THEN
                      /\ meta_call' = [NotRun EXCEPT !.xlwings = "raised",
                                          !.openpyxl = "raised", !.returned = "failed"]
                      /\ UNCHANGED template_header
                  ELSE
                      /\ meta_call' = [NotRun EXCEPT !.xlwings = "raised",
                                          !.openpyxl = "ok", !.returned = "ok"]
                      /\ template_header' = "metadata"
    /\ pc' = "metadata_returned"
    /\ UNCHANGED << inputs, temp_dir, output, write_call, next_file, data_list,
                    processing_log, file_masks, concatenated, gabungan_df,
                    shown, download, escaped, final_preserve,
                    fmt_vars >>

\* pd.concat(data_list, ignore_index=True)
RECURSIVE Concat(_)
Concat(frames) ==
    IF frames = <<>> THEN <<>> ELSE Head(frames) \o Concat(Tail(frames))

RECURSIVE TotalRows(_)
TotalRows(files) ==
    IF files = <<>> THEN 0 ELSE Len(Head(files).rows) + TotalRows(Tail(files))

\* The data area of the template: every row a request can write to.
TemplateSheet ==
    [r \in data_start_row..(data_start_row + TotalRows(uploaded_files) - 1) |->
        [c \in 1..NumCols |-> template_fill]]

\* enumerate(gabungan_df.itertuples(index=False), start=data_start_row)
FrameIndex(r) == r - data_start_row + 1

\* XlwingsWrite without the is_missing_value test: every cell is overwritten.
XlwingsWrite_dense(sheet, df) ==
    [r \in DOMAIN sheet |->
        [c \in 1..NumCols |->
            IF FrameIndex(r) <= Len(df) THEN df[FrameIndex(r)][c] ELSE sheet[r][c]]]

\* The xlwings loop: ws.range(r_idx, c_idx).value = value, missing values skipped.
XlwingsWrite(sheet, df) ==
    [r \in DOMAIN sheet |->
        [c \in 1..NumCols |->
            IF FrameIndex(r) <= Len(df) /\ ~is_missing_value(df[FrameIndex(r)][c])
            THEN df[FrameIndex(r)][c]
            ELSE sheet[r][c]]]

\* The openpyxl loop: ws.cell(row=r_idx, column=c_idx).value = value, missing
\* values skipped.
OpenpyxlWrite(sheet, df) ==
    [r \in DOMAIN sheet |->
        [c \in 1..NumCols |->
            IF FrameIndex(r) <= Len(df) /\ ~is_missing_value(df[FrameIndex(r)][c])
            THEN df[FrameIndex(r)][c]
            ELSE sheet[r][c]]]

\* preserve_template_formatting on the values of a workbook: the rows above
\* data_start_row take the template's values, the data rows keep theirs.
\* Nothing is saved when it fails.
preserve_template_formatting(out, fails) ==
    IF fails THEN out ELSE [out EXCEPT !.header = template_header]

(* ------------------------------------------------------------------ *)
(* create_final_file                                                   *)
(* ------------------------------------------------------------------ *)

\* SecondFilter with a stricter threshold than the first pass.
SecondFilter_strict(df) ==
    SelectSeq(df, LAMBDA row : count_missing_values(row) < MAX_MISSING_VALUES)

\* The second validation pass: gabungan_df[valid_combined_mask]
SecondFilter(df) == FilterRows(df)

\* The second formatting pass over the numeric columns.
SecondFormat(df) == FormatFrame(df)

CreateFinalFile ==
    /\ pc = "create"
    /\ IF data_list = <<>> THEN
           /\ write_call' = [NotRun EXCEPT !.returned = "failed"]
           /\ pc' = "created"
           /\ UNCHANGED << concatenated, gabungan_df, output, xl_apps, xl_books,
                           escaped, temp_dir >>
       ELSE
           \E concat_fails \in MayFail("concat"),
              copy_fails \in MayFail("copy_template") :
               LET combined == Concat(data_list)
                   second   == SecondFormat(SecondFilter(combined))
                   copied   == [exists |-> TRUE, header |-> template_header,
                                data |-> TemplateSheet]
               IN
               IF concat_fails THEN
                   \* pd.concat is outside the try block
                   /\ Crash({ "create_final_file", "main" })
                   /\ UNCHANGED << concatenated, gabungan_df, output, write_call,
                                   xl_apps, xl_books >>
               ELSE IF second.raised \/ copy_fails THEN
                   \* so are the second formatting pass and shutil.copy2
                   /\ Crash({ "create_final_file", "main" })
                   /\ concatenated' = combined
                   /\ UNCHANGED << gabungan_df, output, write_call, xl_apps,
                                   xl_books >>
               ELSE
                   /\ concatenated' = combined
                   /\ gabungan_df' = second.rows
                   /\ pc' = "created"
                   /\ UNCHANGED << escaped, temp_dir >>
                   /\ \E stage \in XlwingsOutcomes("xw_write_app", "xw_write_open",
                                                   "xw_write_cells") :
                        IF stage = "ok" THEN
                            /\ output' = [copied EXCEPT
                                            !.data = XlwingsWrite(@, second.rows)]
                            /\ write_call' = [NotRun EXCEPT !.xlwings = "ok",
                                                 !.returned = "ok"]
                            /\ UNCHANGED << xl_apps, xl_books >>
                        ELSE
                            /\ xl_apps' = xl_apps + AppsLeft(stage)
                            /\ xl_books' = xl_books + BooksLeft(stage)
                            /\ \E write_fails \in MayFail("opx_write"),
                                  preserve_fails \in MayFail("preserve") :
                                 IF write_fails THEN
                                     /\ output' = copied
                                     /\ write_call' =
                                          [NotRun EXCEPT !.xlwings = "raised",
                                              !.openpyxl = "raised",
                                              !.returned = "failed"]
                                 ELSE
                                     /\ output' = preserve_template_formatting(
                                          [copied EXCEPT
                                              !.data = OpenpyxlWrite(@, second.rows)],
                                          preserve_fails)
                                     /\ write_call' =
                                          [NotRun EXCEPT !.xlwings = "raised",
                                              !.openpyxl = "ok",
                                              !.preserve =
                                                 IF preserve_fails THEN "failed"
                                                                   ELSE "ok",
                                              !.returned = "ok"]
    /\ UNCHANGED << inputs, template_header, meta_call, next_file, data_list,
                    processing_log, file_masks, shown, download,
                    final_preserve, fmt_vars >>

(* ------------------------------------------------------------------ *)
(* main                                                                *)
(* ------------------------------------------------------------------ *)

\* The button handler up to the with block: the three input checks.
Submit ==
    /\ pc = "idle"
    /\ IF ~template_file THEN
           /\ shown' = shown \cup { Banner("no_template") }
           /\ pc' = "done"
       ELSE IF uploaded_files = <<>> THEN
           /\ shown' = shown \cup { Banner("no_files") }
           /\ pc' = "done"
       ELSE IF ~metadata_ok THEN
           /\ shown' = shown \cup { Banner("metadata_incomplete") }
           /\ pc' = "done"
       ELSE
           /\ pc' = "tempdir"
           /\ UNCHANGED shown
    /\ UNCHANGED << inputs, temp_dir, template_header, output, meta_call,
                    write_call, next_file, data_list, processing_log,
                    file_masks, concatenated, gabungan_df, download, xl_apps,
                    xl_books, escaped, final_preserve,
                    fmt_vars >>

\* with tempfile.TemporaryDirectory() as temp_dir: write template.xlsx
SaveTemplate ==
    /\ pc = "tempdir"
    /\ \E fails \in MayFail("save_template") :
         IF fails THEN Crash({ "main" })
         ELSE /\ temp_dir' = "exists"
              /\ pc' = "metadata"
              /\ UNCHANGED escaped
    /\ UNCHANGED << inputs, template_header, output, meta_call, write_call,
                    next_file, data_list, processing_log, file_masks,
                    concatenated, gabungan_df, shown, download, xl_apps,
                    xl_books, final_preserve, fmt_vars >>

\* if not success: st.error(msg); return
CheckMetadata ==
    /\ pc = "metadata_returned"
    /\ IF meta_call.returned = "failed" THEN
           /\ shown' = shown \cup { Banner("metadata_error") }
           /\ pc' = "done"
           /\ LeaveWith
       ELSE
           /\ pc' = "process"
           /\ UNCHANGED << shown, temp_dir >>
    /\ UNCHANGED << inputs, template_header, output, meta_call, write_call,
                    next_file, data_list, processing_log, file_masks,
                    concatenated, gabungan_df, download, xl_apps, xl_books,
                    escaped, final_preserve,
                    fmt_vars >>

ResultMessage ==
    IF write_call.returned = "ok" THEN "merged"
    ELSE IF write_call.xlwings = "not_run" THEN "no_data" ELSE "write_error"

\* CheckResult that also treats a failed formatting pass as a failed write.
CheckResult_preserve_is_error ==
    /\ pc = "created"
    /\ IF write_call.returned = "ok" /\ write_call.preserve # "failed" THEN
           /\ pc' = "preserve"
           /\ UNCHANGED << shown, temp_dir >>
       ELSE
           /\ shown' = shown \cup { Banner("write_error") }
           /\ pc' = "done"
           /\ temp_dir' = "removed"
    /\ UNCHANGED << inputs, template_header, output, meta_call, write_call,
                    next_file, data_list, processing_log, file_masks,
                    concatenated, gabungan_df, download, xl_apps, xl_books,
                    escaped, final_preserve, fmt_vars >>

\* if success: ... else: st.error(result_message)
CheckResult ==
    /\ pc = "created"
    /\ IF write_call.returned = "ok" THEN
           /\ pc' = "preserve"
           /\ UNCHANGED << shown, temp_dir >>
       ELSE
           /\ shown' = shown \cup { Banner(ResultMessage) }
           /\ pc' = "done"
           /\ LeaveWith
    /\ UNCHANGED << inputs, template_header, output, meta_call, write_call,
                    next_file, data_list, processing_log, file_masks,
                    concatenated, gabungan_df, download, xl_apps, xl_books,
                    escaped, final_preserve,
                    fmt_vars >>

\* The final formatting step of main; its result is not looked at.
PreserveFormatting ==
    /\ pc = "preserve"
    /\ \E fails \in MayFail("preserve") :
         /\ output' = preserve_template_formatting(output, fails)
         /\ final_preserve' = IF fails THEN "failed" ELSE "ok"
    /\ pc' = "deliver"
    /\ UNCHANGED << inputs, temp_dir, template_header, meta_call, write_call,
                    next_file, data_list, processing_log, file_masks,
                    concatenated, gabungan_df, shown, download, xl_apps,
                    xl_books, escaped, fmt_vars >>

LogLines == { processing_log[i] : i \in 1..Len(processing_log) }

\* Read the output, offer the download, show the processing log.
Deliver ==
    /\ pc = "deliver"
    /\ download' = output
    /\ shown' = shown \cup { [kind |-> "download"] } \cup LogLines
    /\ pc' = "done"
    /\ LeaveWith
    /\ UNCHANGED << inputs, template_header, output, meta_call, write_call,
                    next_file, data_list, processing_log, file_masks,
                    concatenated, gabungan_df, xl_apps, xl_books, escaped,
                    final_preserve,
                    fmt_vars >>

(* ------------------------------------------------------------------ *)
(* Requests                                                            *)
(* ------------------------------------------------------------------ *)

S_nan == << "n", "a", "n" >>

\* The cells the validator has to classify as missing.
MissingKinds == { NaN, <<>>, << " " >>, S_nan, << " ", "N", "a", "N" >> }

S_inf == << "i", "n", "f" >>

\* Contents of a numeric cell: a whole number, a fraction.
NumericKinds == { << "1", "0", "0", "0" >>, << "1", ".", "9", "9", "9" >> }

\* What the template holds in its data area: nothing, or an earlier value.
Fills == { NaN, << "o", "l", "d" >> }

\* The columns of a row go missing in this order: the even ones, then the odd.
MissingOrder(c) ==
    IF c % 2 = 0 THEN c \div 2 ELSE (NumCols \div 2) + ((c + 1) \div 2)

\* A row with k missing required fields.
MakeRow(k, miss, num) ==
    [c \in 1..NumCols |->
        IF MissingOrder(c) <= k THEN miss
        ELSE IF IsNumericColumn(c) THEN num
        ELSE << "x" >>]

\* n rows with first, first + 1, ... missing fields.
RowsFrom(first, n, miss, num) ==
    [i \in 1..n |-> MakeRow(first + i - 1, miss, num)]

\* The sheets a file can hold: rows around the threshold, a cell that
\* overflows, and the files that cannot be saved, read, or lack a column.
FileVariants(miss, num) ==
    { [fault |-> "none", rows |-> RowsFrom(first, n, miss, num)] :
          first \in { MAX_MISSING_VALUES, MAX_MISSING_VALUES + 1 }, n \in 0..MaxRows }
      \cup { [fault |-> "none", rows |-> RowsFrom(MAX_MISSING_VALUES, 1, miss, S_inf)] }
      \cup { [fault |-> f, rows |-> RowsFrom(MAX_MISSING_VALUES, 1, miss, num)] :
                f \in { "save", "read", "columns" } }

\* uploaded_file.name: the files of a request are named by their position.
Named(fs) ==
    [i \in 1..Len(fs) |-> [name |-> i, fault |-> fs[i].fault, rows |-> fs[i].rows]]

FileLists(miss, num) ==
    { Named(fs) : fs \in UNION { [1..n -> FileVariants(miss, num)] : n \in 0..MaxFiles } }

\* The state when the button is pressed.
Start(tf, mo, files, fill, faults) ==
    /\ pc = "idle"
    /\ template_file = tf
    /\ metadata_ok = mo
    /\ uploaded_files = files
    /\ template_fill = fill
    /\ faults_enabled = faults
    /\ temp_dir = "none"
    /\ template_header = "blank"
    /\ output = NoOutput
    /\ meta_call = NotRun
    /\ write_call = NotRun
    /\ next_file = 1
    /\ data_list = <<>>
    /\ processing_log = <<>>
    /\ file_masks = [i \in 1..Len(files) |-> [accepted |-> FALSE, mask |-> <<>>]]
    /\ concatenated = <<>>
    /\ gabungan_df = <<>>
    /\ shown = {}
    /\ download = NoOutput
    /\ xl_apps = 0
    /\ xl_books = 0
    /\ escaped = {}
    /\ final_preserve = "not_run"
    /\ fmt_in = <<>>
    /\ fmt_out = <<>>
    /\ fmt_miss = "unknown"

\* Any request, on a host where every library call can fail.
Init ==
    \E tf \in BOOLEAN, mo \in BOOLEAN,
       files \in FileLists(NaN, << "1", "0", "0", "0" >>) :
        Start(tf, mo, files, << "o", "l", "d" >>, AllFaults)

Next ==
    \/ Submit
    \/ SaveTemplate
    \/ UpdateTemplateMetadata
    \/ CheckMetadata
    \/ ProcessFile
    \/ ProcessFilesReturn
    \/ CreateFinalFile
    \/ CheckResult
    \/ PreserveFormatting
    \/ Deliver

Spec == Init /\ [][Next]_vars

\* Complete requests over every kind of cell, on a host with Excel and on
\* one without it (xw.App() raises and the openpyxl strategy writes).
InitData ==
    \E miss \in MissingKinds, num \in NumericKinds, fill \in Fills,
       faults \in { {}, { "xw_write_app" } } :
        \E files \in FileLists(miss, num) :
            Start(TRUE, TRUE, files, fill, faults)

SpecData == InitData /\ [][Next]_vars

(* ------------------------------------------------------------------ *)
(* The formatter and the missing-value test as functions               *)
(* ------------------------------------------------------------------ *)

Alphabet == { "0", "1", "9", ".", ",", "-", " ", "n", "a", "N", "i", "f" }

Strings == UNION { [1..n -> Alphabet] : n \in 0..MaxLen }

InitFmt ==
    /\ pc = "function"
    /\ template_file = FALSE
    /\ metadata_ok = FALSE
    /\ uploaded_files = <<>>
    /\ template_fill = NaN
    /\ faults_enabled = {}
    /\ temp_dir = "none"
    /\ template_header = "blank"
    /\ output = NoOutput
    /\ meta_call = NotRun
    /\ write_call = NotRun
    /\ next_file = 1
    /\ data_list = <<>>
    /\ processing_log = <<>>
    /\ file_masks = <<>>
    /\ concatenated = <<>>
    /\ gabungan_df = <<>>
    /\ shown = {}
    /\ download = NoOutput
    /\ xl_apps = 0
    /\ xl_books = 0
    /\ escaped = {}
    /\ final_preserve = "not_run"
    /\ fmt_in \in Strings \cup { NaN }
    /\ fmt_out = <<>>
    /\ fmt_miss = "unknown"

pipeline_vars ==
    << pc, inputs, temp_dir, template_header, output, meta_call, write_call,
       next_file, data_list, processing_log, file_masks, concatenated,
       gabungan_df, shown, download, xl_apps, xl_books, escaped,
       final_preserve >>

\* format_numeric_value on the argument, then on what it returned.
FormatValue ==
    /\ pc = "function"
    /\ Len(fmt_out) < 2
    /\ fmt_out # <<>> => ~fmt_out[Len(fmt_out)].raised
    /\ fmt_out' = Append(fmt_out,
          format_numeric_value(IF fmt_out = <<>> THEN fmt_in
                               ELSE fmt_out[Len(fmt_out)].value))
    /\ UNCHANGED << pipeline_vars, fmt_in, fmt_miss >>

\* is_missing_value on the argument.
ClassifyValue ==
    /\ pc = "function"
    /\ fmt_miss = "unknown"
    /\ fmt_miss' = IF is_missing_value(fmt_in) THEN "missing" ELSE "present"
    /\ UNCHANGED << pipeline_vars, fmt_in, fmt_out >>

NextFmt == FormatValue \/ ClassifyValue

SpecFmt == InitFmt /\ [][NextFmt]_vars

(* ------------------------------------------------------------------ *)
(* Properties                                                          *)
(* ------------------------------------------------------------------ *)

AllSpaces(v) == \A i \in 1..Len(v) : v[i] = " "

\* Missing as the specification words it: empty, whitespace-only, or the
\* string "nan".
ClaimedMissing(v) == v = NaN \/ AllSpaces(v) \/ v = S_nan

\* Missing with "nan" taken after trimming and in any letter case.
AmendedMissing(v) == v = NaN \/ AllSpaces(v) \/ Lower(Strip(v)) = S_nan

ClaimedCount(row) == Cardinality({ c \in 1..NumCols : ClaimedMissing(row[c]) })

AmendedCount(row) == Cardinality({ c \in 1..NumCols : AmendedMissing(row[c]) })

KeptCount(i) == Cardinality({ j \in 1..Len(file_masks[i].mask) : file_masks[i].mask[j] })

\* C1 as stated: in every accepted file a row is retained when at most 10 of
\* its 19 required fields are empty, whitespace-only or the string "nan", and
\* dropped when 11 or more are.
C1_AsStated ==
    \A i \in 1..Len(file_masks) :
        file_masks[i].accepted =>
            \A j \in 1..Len(uploaded_files[i].rows) :
                LET n == ClaimedCount(uploaded_files[i].rows[j])
                IN  /\ n <= 10 => file_masks[i].mask[j]
                    /\ n >= 11 => ~file_masks[i].mask[j]

\* C1 amended: in every accepted file a row is retained when at most 10 of
\* its 19 required fields are missing and dropped when 11 or more are, where
\* a field is missing when it is empty, whitespace-only, or "nan" after
\* trimming whitespace and ignoring letter case.
C1_ThresholdAmended ==
    \A i \in 1..Len(file_masks) :
        file_masks[i].accepted =>
            \A j \in 1..Len(uploaded_files[i].rows) :
                LET n == AmendedCount(uploaded_files[i].rows[j])
                IN  /\ n <= 10 => file_masks[i].mask[j]
                    /\ n >= 11 => ~file_masks[i].mask[j]

C1_Witness ==
    \E i \in 1..Len(file_masks) :
        /\ file_masks[i].accepted
        /\ \E j, k \in 1..Len(uploaded_files[i].rows) :
              /\ AmendedCount(uploaded_files[i].rows[j]) = 10
              /\ file_masks[i].mask[j]
              /\ AmendedCount(uploaded_files[i].rows[k]) = 11
              /\ ~file_masks[i].mask[k]
              /\ ClaimedCount(uploaded_files[i].rows[k]) = 0

RECURSIVE SumKept(_)
SumKept(n) ==
    IF n = 0 THEN 0
    ELSE SumKept(n - 1) + (IF file_masks[n].accepted THEN KeptCount(n) ELSE 0)

\* C2: the dataset create_final_file writes has as many rows as the files'
\* post-filter row counts from process_files add up to, a skipped file
\* counting 0.
C2_RowCountIsSum ==
    write_call.returned = "ok" =>
        Len(gabungan_df) = SumKept(Len(uploaded_files))

C2_Witness ==
    /\ write_call.returned = "ok"
    /\ Len(gabungan_df) >= 2
    /\ \A i \in 1..Len(file_masks) : file_masks[i].accepted /\ KeptCount(i) >= 1
    /\ \E i \in 1..Len(file_masks) : KeptCount(i) < Len(uploaded_files[i].rows)

\* C3: format_numeric_value never raises; an input that parses as a number
\* once its thousands separators are stripped comes back as the
\* comma-grouped integer when whole and as the comma-grouped two-decimal
\* string otherwise; every other input comes back unchanged.
C3_FormatContract ==
    fmt_out # <<>> =>
        /\ ~fmt_out[1].raised
        /\ LET p == IF fmt_in = NaN THEN [kind |-> "invalid"]
                    ELSE ParseFloat(RemoveCommas(fmt_in))
           IN  IF p.kind = "finite"
               THEN fmt_out[1].value =
                       (IF IsWhole(p) THEN FormatInt(p) ELSE FormatTwoDecimals(p))
               ELSE fmt_out[1].value = fmt_in

PassesInputChecks == template_file /\ uploaded_files # <<>> /\ metadata_ok

\* C5: in a request that passes the input checks no exception leaves
\* process_files, create_final_file or main: every failure ends as a log
\* line or an error banner.
C5_NoExceptionEscapes == PassesInputChecks => escaped = {}

Skipped(i) == uploaded_files[i].fault \in { "read", "columns" }

\* C6: every file that cannot be read or lacks a required column contributes
\* no rows, the files after it are processed, and by the end of the request
\* a log line naming it has been shown.  Stated for the requests that reach
\* process_files and end without an exception.
C6_SkippedFilesReported ==
    (pc = "done" /\ escaped = {} /\ next_file > 1) =>
        /\ next_file = Len(uploaded_files) + 1
        /\ \A i \in 1..Len(uploaded_files) :
              Skipped(i) =>
                  /\ ~file_masks[i].accepted
                  /\ \/ LogReadError(uploaded_files[i].name) \in shown
                     \/ LogMissingCols(uploaded_files[i].name) \in shown

FallbackChain(call) ==
    (call.returned # "none" /\ call.xlwings # "not_run") =>
        /\ (call.openpyxl # "not_run") <=> (call.xlwings = "raised")
        /\ (call.returned = "ok") <=> (call.xlwings = "ok" \/ call.openpyxl = "ok")
        /\ (call.returned = "failed") <=>
              (call.xlwings = "raised" /\ call.openpyxl = "raised")

ErrorShown == \E s \in shown : s.kind = "error"

\* C7: in update_template_metadata and in create_final_file with data, the
\* openpyxl strategy runs exactly when the xlwings strategy raised, the call
\* succeeds when either strategy completes and fails only when both raised;
\* main shows the error exactly then, and a failed
\* preserve_template_formatting never turns a successful write into an error.
C7_FallbackChain ==
    /\ FallbackChain(meta_call)
    /\ FallbackChain(write_call)
    /\ (pc = "done" /\ escaped = {} /\ PassesInputChecks) =>
          /\ Banner("metadata_error") \in shown <=> meta_call.returned = "failed"
          /\ Banner("write_error") \in shown <=>
                (write_call.xlwings = "raised" /\ write_call.openpyxl = "raised")
          /\ write_call.returned = "ok" =>
                ([kind |-> "download"] \in shown /\ ~ErrorShown)

C7_Witness ==
    /\ pc = "done"
    /\ meta_call.xlwings = "raised"
    /\ meta_call.openpyxl = "ok"
    /\ write_call.xlwings = "raised"
    /\ write_call.returned = "ok"
    /\ write_call.preserve = "failed"
    /\ final_preserve = "failed"
    /\ [kind |-> "download"] \in shown

\* C8: a request that created its temporary directory ends with the
\* directory removed, on every exit path of main; the directory exists only
\* while main is inside the with block.
C8_TempDirRemoved ==
    /\ pc = "done" => temp_dir # "exists"
    /\ temp_dir = "exists" =>
          pc \in { "metadata", "metadata_returned", "process", "create",
                   "created", "preserve", "deliver" }

C8_Witness ==
    /\ pc = "done"
    /\ temp_dir = "removed"
    /\ Banner("write_error") \in shown

\* C9: the second validation and formatting pass of create_final_file changes
\* nothing: the dataset it writes is the concatenation of what process_files
\* produced, row for row and cell for cell.
C9_SecondPassChangesNothing ==
    (pc = "created" /\ write_call.returned = "ok") => gabungan_df = concatenated

\* C10: whenever update_template_metadata or create_final_file returns, no
\* xlwings application instance is left running and no workbook left open.
C10_XlwingsReleased ==
    pc \in { "metadata_returned", "created" } => (xl_apps = 0 /\ xl_books = 0)

====
